---- MODULE Spec2Model ----
(***************************************************************************)
(* Model of cachelib/common/AccessTracker.h: AccessTrackerBase<CMS>, a     *)
(* ring of numBuckets time buckets, each with a counter backend (a count   *)
(* min sketch when useCounts, one slice of a bloom filter otherwise), a    *)
(* spin lock and a raw item counter, and one atomic index naming the most  *)
(* recently accessed bucket.                                               *)
(*                                                                         *)
(* C++ vectors are sequences here: element idx of a vector v is v[idx+1].  *)
(* The backends are exact: no two keys of the model collide.               *)
(***************************************************************************)
EXTENDS Integers, Sequences, FiniteSets, TLC

\* ------------------------------------------------------------- bounds
MaxBuckets == 3
MaxTicksPerBucket == 2
MaxTick == 5
MaxConcTick == 3
MaxRecords == 2
NumThreads == 2
MaxGarbage == 1

Threads == 1..NumThreads
Keys == {"a", "b"}
\* The keys of the concurrent runs: distinct keys share nothing but itemCounts_.
ConcKeys == {"a"}
Ops == {"recordAccess", "getAccesses", "recordAndPopulateAccessFeatures",
        "getRotatedAccessCounts"}

VARIABLES
  config_,                   \* Config: numBuckets, numTicksPerBucket, useCounts, ticker
  mostRecentAccessedBucket_, \* std::atomic<size_t>
  filters_,                  \* BloomFilter: one set of hashes per bucket
  counts_,                   \* std::vector<CMS>: one count per hash per bucket
  locks_,                    \* std::vector<folly::SpinLock>: 0 free, else the holder
  itemCounts_,               \* std::vector<uint64_t>
  tick,                      \* what config_.ticker->getCurrentTick() returns
  th,                        \* each thread's position and locals
  log,                       \* history: the recordAccess increments made, in order
  win,                       \* history: per bucket and key, the recordAccess calls
                             \* completed since the index was last advanced to it
  rot,                       \* history: the tick span the index's bucket was entered
                             \* for, and the spans whose bucket has been reset, as
                             \* far as a rotation check can still name them
  adv,                       \* history: whether the clock just moved on by one bucket
                             \* span from a state where the index matched the
                             \* tick's bucket, and the length of log then
  other,                     \* the moved-from tracker object, once a move was made
  moved,                     \* "no", "fresh" (just moved, nothing called since), "used"
  crashed                    \* an out-of-bounds access ended the process

vars == <<config_, mostRecentAccessedBucket_, filters_, counts_, locks_,
          itemCounts_, tick, th, log, win, rot, adv, other, moved, crashed>>

tracker == <<config_, mostRecentAccessedBucket_, filters_, counts_, locks_,
             itemCounts_>>

\* ------------------------------------------------------------ helpers
\* folly::hash::SpookyHashV2::Hash64(key, size, kRandomSeed): injective on Keys.
Hash64(key) == CASE key = "a" -> 17 [] key = "b" -> 42 [] OTHER -> 0

Hashes == {Hash64(k) : k \in Keys}

\* A vector of n copies of x.
Fill(n, x) == [j \in 1..n |-> x]

\* A fresh backend: CMS(errorMargin, ...) has every count 0.
EmptyCMS == [h \in Hashes |-> 0]

\* Sum of a vector of numbers.
RECURSIVE Sum(_)
Sum(vec) == IF vec = <<>> THEN 0 ELSE Head(vec) + Sum(Tail(vec))

\* rotate raw bucket index to fit into the output.
rotatedIdx(bucket) == bucket % config_.numBuckets

getCurrentBucketIndex == rotatedIdx(tick \div config_.numTicksPerBucket)

\* line 100, for a tracker with the given config_.
getNumBuckets(config) == config.numBuckets

\* The bucket span a tick lies in.
SpanOf(t) == t \div config_.numTicksPerBucket

\* ---------------------------------------------------- counter backends
\* util::CountMinSketch with no collisions: increment, getCount, reset.
CMSIncrement(cms, hashVal) == [cms EXCEPT ![hashVal] = @ + 1]

CMSGetCount(cms, hashVal) == cms[hashVal]

\* BloomFilter with no false positives: set, couldExist, clear on filter idx.
BFSet(bf, idx, hashVal) == [bf EXCEPT ![idx + 1] = @ \cup {hashVal}]

BFCouldExist(bf, idx, hashVal) == hashVal \in bf[idx + 1]

BFClear(bf, idx) == [bf EXCEPT ![idx + 1] = {}]

\* ------------------------------------------------------- thread state
Idle ==
  [pc |-> "idle", op |-> "none", fn |-> "none", key |-> "none", hashVal |-> 0,
   bucketIdx |-> 0, span |-> 0, mostRecent |-> 0, mostRecentBucketIdx |-> 0,
   currentBucketIdx |-> 0, idx |-> 0, i |-> 0, tmp |-> 0,
   features |-> <<>>, counts |-> <<>>]

\* recordAccess calls made so far: the completed ones and those in flight.
InFlightRecords ==
  Cardinality({t \in Threads :
     /\ th[t].pc \notin {"idle", "ret"}
     /\ th[t].op \in {"recordAccess", "recordAndPopulateAccessFeatures"}})

Quiescent == \A t \in Threads : th[t].pc = "idle"

NotAdvanced == [armed |-> FALSE, logLen |-> 0]

\* The index starts at bucket 0, the bucket of span 0; nothing has been reset.
NotRotated == [span |-> 0, done |-> {}]

\* The thread is inside updateMostRecentAccessedBucket, its bucketIdx computed.
InUpdate(rec) == rec.pc \in {"upd_load", "upd_cas", "upd_lock", "upd_reset"}

\* The spans of done that a rotation check can still name: the span of tick tk,
\* and the spans of the checks in progress in the threads thr.
Nameable(done, thr, tk) ==
  {s \in done :
     \/ s = SpanOf(tk)
     \/ \E u \in Threads : InUpdate(thr[u]) /\ thr[u].span = s}

\* No tracker has been moved from yet.
NoOther == [exists |-> FALSE]

\* -------------------------------------------------------------- Init
\* AccessTrackerBase(Config config): lines 181-205.
Init ==
  /\ config_ \in [numBuckets : 1..MaxBuckets,
                  numTicksPerBucket : 1..MaxTicksPerBucket,
                  useCounts : BOOLEAN,
                  ticker : {"set"}]
  /\ mostRecentAccessedBucket_ = 0
  /\ counts_ = IF config_.useCounts THEN Fill(config_.numBuckets, EmptyCMS) ELSE <<>>
  /\ filters_ = IF config_.useCounts THEN <<>> ELSE Fill(config_.numBuckets, {})
  /\ locks_ = Fill(config_.numBuckets, 0)
  /\ itemCounts_ = Fill(config_.numBuckets, 0)
  /\ tick = 0
  /\ th = [t \in Threads |-> Idle]
  /\ log = <<>>
  /\ win = Fill(config_.numBuckets, [k \in Keys |-> 0])
  /\ rot = NotRotated
  /\ adv = NotAdvanced
  /\ other = NoOther
  /\ moved = "no"
  /\ crashed = FALSE

\* ------------------------------------------------------- tick source
\* Ticker::getCurrentTick is non-decreasing; the clock moves at any moment.
AdvanceTick ==
  /\ ~crashed
  /\ \E n \in (tick + 1)..MaxConcTick :
       /\ tick' = n
       /\ rot' = [rot EXCEPT !.done = Nameable(@, th, n)]
  /\ UNCHANGED <<tracker, th, log, win, adv, other, moved, crashed>>

\* The clock of the runs that never end. getCurrentBucketIndex (133-136) is all
\* the code reads of the tick, and it is the same for a tick and for that tick
\* less whole turns of the ring, so the tick is kept modulo one turn.
AdvanceTickAround ==
  /\ ~crashed
  /\ tick' = (tick + 1) % (config_.numBuckets * config_.numTicksPerBucket)
  /\ rot' = [rot EXCEPT !.done = Nameable(@, th, tick')]
  /\ UNCHANGED <<tracker, th, log, win, adv, other, moved, crashed>>

\* The clock moves between two calls of a single caller.
AdvanceTickBetweenCalls ==
  /\ ~crashed
  /\ Quiescent
  /\ \E n \in (tick + 1)..MaxTick :
       /\ tick' = n
       /\ rot' = [rot EXCEPT !.done = Nameable(@, th, n)]
       /\ adv' = IF /\ mostRecentAccessedBucket_ = getCurrentBucketIndex
                    /\ SpanOf(n) = SpanOf(tick) + 1
                 THEN [armed |-> TRUE, logLen |-> Len(log)]
                 ELSE NotAdvanced
  /\ UNCHANGED <<tracker, th, log, win, other, moved, crashed>>

\* ------------------------------------------------------------- calls
\* What a read outside a vector's storage may find there.
Garbage == 0..MaxGarbage

InBounds(vec, idx) == idx + 1 \in DOMAIN vec

\* itemCounts_[idx] read; outside the vector (undefined behaviour) any value g.
ReadItemCount(idx, g) ==
  IF InBounds(itemCounts_, idx) THEN itemCounts_[idx + 1] ELSE g

\* itemCounts_[idx] = n; outside the vector the write lands in stray memory.
WriteItemCount(idx, n) ==
  IF InBounds(itemCounts_, idx) THEN [itemCounts_ EXCEPT ![idx + 1] = n] ELSE itemCounts_

Goto(t, rec) == th' = [th EXCEPT ![t] = rec]

\* Mutant: the lock is taken whether or not another thread holds it.
LockAlwaysAvailable(idx) == TRUE

\* folly::SpinLock::lock() returns once the lock is free.
LockAvailable(idx) == locks_[idx + 1] = 0

Lock(t, idx) == locks_' = [locks_ EXCEPT ![idx + 1] = t]

\* Mutant: the lock holder goes out of scope without releasing the lock.
UnlockNever(idx) == locks_' = locks_

\* ~LockHolder(): the lock_guard releases the lock at the end of its scope.
Unlock(idx) == locks_' = [locks_ EXCEPT ![idx + 1] = 0]

\* Mutant: the access is recorded before the features are read.
RapOrderRecordFirst == <<"recordAccess", "getAccesses">>

\* recordAndPopulateAccessFeatures, lines 88-92: the two calls it makes, in order.
RapOrder == <<"getAccesses", "recordAccess">>

\* Where a thread goes when the function it runs returns: on to the second call
\* of recordAndPopulateAccessFeatures, or back to the caller.
NextOf(rec) ==
  IF rec.op = "recordAndPopulateAccessFeatures" /\ rec.fn = RapOrder[1]
  THEN [rec EXCEPT !.fn = RapOrder[2], !.pc = "upd_tick"]
  ELSE [rec EXCEPT !.pc = "ret"]

\* A thread calls one of the public operations.
Call(t, o, k) ==
  /\ ~crashed
  /\ th[t].pc = "idle"
  /\ o \in {"recordAccess", "recordAndPopulateAccessFeatures"}
       => Len(log) + InFlightRecords < MaxRecords
  /\ Goto(t, [Idle EXCEPT
        !.op = o,
        !.key = IF o = "getRotatedAccessCounts" THEN "none" ELSE k,
        !.fn = IF o = "recordAndPopulateAccessFeatures" THEN RapOrder[1] ELSE o,
        !.pc = IF o = "getRotatedAccessCounts" THEN "cnt_tick" ELSE "upd_tick"])
  /\ moved' = IF moved = "fresh" THEN "used" ELSE moved
  /\ UNCHANGED <<tracker, tick, log, win, rot, adv, other, crashed>>

\* The operation returns to its caller.
Return(t) ==
  /\ ~crashed
  /\ th[t].pc = "ret"
  /\ Goto(t, Idle)
  /\ UNCHANGED <<tracker, tick, log, win, rot, adv, other, moved, crashed>>

\* ------------------------------- updateMostRecentAccessedBucket, 243-263
\* Where the caller of updateMostRecentAccessedBucket goes on: line 211 or 223.
AfterUpdate(fn) == IF fn = "recordAccess" THEN "rec_load" ELSE "get_load"

\* Mutant: only a thread whose bucket is the tracked one needs no rotation.
InBorderSameOnly(bucketIdx, mostRecent) == bucketIdx = mostRecent

\* line 251: in the border of the currently tracked bucket.
InBorder(bucketIdx, mostRecent) ==
  bucketIdx = mostRecent \/ rotatedIdx(bucketIdx + 1) = mostRecent

\* line 245: const auto bucketIdx = getCurrentBucketIndex();
UpdTick(t) ==
  /\ ~crashed
  /\ th[t].pc = "upd_tick"
  /\ Goto(t, [th[t] EXCEPT !.bucketIdx = getCurrentBucketIndex,
                           !.span = SpanOf(tick), !.pc = "upd_load"])
  /\ UNCHANGED <<tracker, tick, log, win, rot, adv, other, moved, crashed>>

\* lines 247-253: load the index; return when no rotation is needed.
UpdLoad(t) ==
  /\ ~crashed
  /\ th[t].pc = "upd_load"
  /\ LET mostRecent == mostRecentAccessedBucket_ IN
     IF InBorder(th[t].bucketIdx, mostRecent)
     THEN Goto(t, [th[t] EXCEPT !.bucketIdx = 0, !.span = 0, !.mostRecent = 0,
                                !.pc = AfterUpdate(th[t].fn)])
     ELSE Goto(t, [th[t] EXCEPT !.mostRecent = mostRecent, !.pc = "upd_cas"])
  /\ rot' = [rot EXCEPT !.done = Nameable(@, th', tick)]
  /\ UNCHANGED <<tracker, tick, log, win, adv, other, moved, crashed>>

\* lines 255-257: compare_exchange_strong(mostRecent, bucketIdx); retry on failure.
UpdCas(t) ==
  /\ ~crashed
  /\ th[t].pc = "upd_cas"
  /\ IF mostRecentAccessedBucket_ = th[t].mostRecent
     THEN /\ mostRecentAccessedBucket_' = th[t].bucketIdx
          /\ win' = [win EXCEPT ![th[t].bucketIdx + 1] = [k \in Keys |-> 0]]
          /\ rot' = [rot EXCEPT !.span = th[t].span]
          /\ Goto(t, [th[t] EXCEPT !.mostRecent = 0, !.pc = "upd_lock"])
     ELSE /\ Goto(t, [th[t] EXCEPT !.mostRecent = 0, !.pc = "upd_load"])
          /\ UNCHANGED <<mostRecentAccessedBucket_, win, rot>>
  /\ UNCHANGED <<config_, filters_, counts_, locks_, itemCounts_, tick, log,
                 adv, other, moved, crashed>>

\* line 258: LockHolder l(locks_[bucketIdx]);
UpdLock(t) ==
  /\ ~crashed
  /\ th[t].pc = "upd_lock"
  /\ LockAvailable(th[t].bucketIdx)
  /\ Lock(t, th[t].bucketIdx)
  /\ Goto(t, [th[t] EXCEPT !.pc = "upd_reset"])
  /\ UNCHANGED <<config_, mostRecentAccessedBucket_, filters_, counts_,
                 itemCounts_, tick, log, win, rot, adv, other, moved, crashed>>

\* resetBucketLocked(idx), lines 280-284: the values the bucket gets.
ResetCounts(idx) ==
  IF config_.useCounts THEN [counts_ EXCEPT ![idx + 1] = EmptyCMS] ELSE counts_

ResetFilters(idx) ==
  IF config_.useCounts THEN filters_ ELSE BFClear(filters_, idx)

\* Mutant: the reset zeroes the raw counter of every bucket.
ResetItemCountsAll(idx) == [j \in DOMAIN itemCounts_ |-> 0]

ResetItemCounts(idx) == WriteItemCount(idx, 0)

\* lines 259-260: resetBucketLocked(bucketIdx); return (the lock is released).
UpdReset(t) ==
  /\ ~crashed
  /\ th[t].pc = "upd_reset"
  /\ counts_' = ResetCounts(th[t].bucketIdx)
  /\ filters_' = ResetFilters(th[t].bucketIdx)
  /\ itemCounts_' = ResetItemCounts(th[t].bucketIdx)
  /\ Unlock(th[t].bucketIdx)
  /\ Goto(t, [th[t] EXCEPT !.bucketIdx = 0, !.span = 0, !.pc = AfterUpdate(th[t].fn)])
  /\ rot' = [rot EXCEPT !.done = Nameable(@ \cup {th[t].span}, th', tick)]
  /\ UNCHANGED <<config_, mostRecentAccessedBucket_, tick, log, win, adv, other,
                 moved, crashed>>

\* ------------------------------------------------ recordAccess, 207-216
\* lines 211-213: hash the key, load the index.
RecLoad(t) ==
  /\ ~crashed
  /\ th[t].pc = "rec_load"
  /\ Goto(t, [th[t] EXCEPT !.hashVal = Hash64(th[t].key),
                           !.idx = mostRecentAccessedBucket_,
                           !.pc = "rec_lock"])
  /\ UNCHANGED <<tracker, tick, log, win, rot, adv, other, moved, crashed>>

\* line 214: LockHolder l(locks_[idx]);
RecLock(t) ==
  /\ ~crashed
  /\ th[t].pc = "rec_lock"
  /\ LockAvailable(th[t].idx)
  /\ Lock(t, th[t].idx)
  /\ Goto(t, [th[t] EXCEPT !.pc = "rec_incr"])
  /\ UNCHANGED <<config_, mostRecentAccessedBucket_, filters_, counts_,
                 itemCounts_, tick, log, win, rot, adv, other, moved, crashed>>

\* updateBucketLocked(idx, hashVal), lines 275-276: the backend's new value.
UpdateCounts(idx, hashVal) ==
  IF config_.useCounts
  THEN [counts_ EXCEPT ![idx + 1] = CMSIncrement(@, hashVal)]
  ELSE counts_

UpdateFilters(idx, hashVal) ==
  IF config_.useCounts THEN filters_ ELSE BFSet(filters_, idx, hashVal)

\* Mutant: the raw counter goes up by two.
IncrementedTwice(n) == n + 2

\* line 277, itemCounts_[idx]++: the value stored for a value read.
Incremented(n) == n + 1

\* lines 275-277: the backend is incremented and itemCounts_[idx] is read.
RecIncr(t) ==
  /\ ~crashed
  /\ th[t].pc = "rec_incr"
  /\ counts_' = UpdateCounts(th[t].idx, th[t].hashVal)
  /\ filters_' = UpdateFilters(th[t].idx, th[t].hashVal)
  /\ \E g \in Garbage :
       Goto(t, [th[t] EXCEPT !.tmp = ReadItemCount(th[t].idx, g), !.pc = "rec_store"])
  /\ UNCHANGED <<config_, mostRecentAccessedBucket_, locks_, itemCounts_, tick,
                 log, win, rot, adv, other, moved, crashed>>

\* line 277 and the return: itemCounts_[idx] is written, the lock released.
RecStore(t) ==
  /\ ~crashed
  /\ th[t].pc = "rec_store"
  /\ itemCounts_' = WriteItemCount(th[t].idx, Incremented(th[t].tmp))
  /\ Unlock(th[t].idx)
  /\ log' = Append(log, [key |-> th[t].key, tick |-> tick])
  /\ win' = [win EXCEPT ![th[t].idx + 1][th[t].key] = @ + 1]
  /\ Goto(t, NextOf([th[t] EXCEPT !.tmp = 0]))
  /\ UNCHANGED <<config_, mostRecentAccessedBucket_, filters_, counts_, tick,
                 rot, adv, other, moved, crashed>>

\* ------------------------------------------------- getAccesses, 218-237
\* lines 223-228: hash the key, load the index, size the result.
GetLoad(t) ==
  /\ ~crashed
  /\ th[t].pc = "get_load"
  /\ Goto(t, [th[t] EXCEPT !.hashVal = Hash64(th[t].key),
                           !.mostRecentBucketIdx = mostRecentAccessedBucket_,
                           !.features = Fill(config_.numBuckets, 0),
                           !.i = 0,
                           !.pc = "get_loop"])
  /\ UNCHANGED <<tracker, tick, log, win, rot, adv, other, moved, crashed>>

\* Mutant: the ring is walked forward in time from the most recent bucket.
BucketAtForward(mostRecentBucketIdx, i) == rotatedIdx(mostRecentBucketIdx + i)

\* line 232 (and 292): the bucket read for position i of the result.
BucketAt(mostRecentBucketIdx, i) ==
  rotatedIdx(mostRecentBucketIdx + config_.numBuckets - i)

\* lines 231-233: the loop test, the bucket of position i, its lock.
GetLock(t) ==
  /\ ~crashed
  /\ th[t].pc = "get_loop"
  /\ th[t].i < config_.numBuckets
  /\ LET idx == BucketAt(th[t].mostRecentBucketIdx, th[t].i) IN
     /\ LockAvailable(idx)
     /\ Lock(t, idx)
     /\ Goto(t, [th[t] EXCEPT !.idx = idx, !.pc = "get_read"])
  /\ UNCHANGED <<config_, mostRecentAccessedBucket_, filters_, counts_,
                 itemCounts_, tick, log, win, rot, adv, other, moved, crashed>>

\* getBucketAccessCountLocked(idx, hashVal), lines 265-271.
getBucketAccessCountLocked(idx, hashVal) ==
  IF config_.useCounts
  THEN CMSGetCount(counts_[idx + 1], hashVal)
  ELSE IF BFCouldExist(filters_, idx, hashVal) THEN 1 ELSE 0

\* line 234 and the end of the loop body: the estimate is stored, the lock released.
GetRead(t) ==
  /\ ~crashed
  /\ th[t].pc = "get_read"
  /\ Unlock(th[t].idx)
  /\ Goto(t, [th[t] EXCEPT
        !.features[th[t].i + 1] = getBucketAccessCountLocked(th[t].idx, th[t].hashVal),
        !.i = @ + 1, !.idx = 0, !.pc = "get_loop"])
  /\ UNCHANGED <<config_, mostRecentAccessedBucket_, filters_, counts_,
                 itemCounts_, tick, log, win, rot, adv, other, moved, crashed>>

\* line 236: return features;
GetDone(t) ==
  /\ ~crashed
  /\ th[t].pc = "get_loop"
  /\ th[t].i >= config_.numBuckets
  /\ Goto(t, NextOf([th[t] EXCEPT !.i = 0]))
  /\ UNCHANGED <<tracker, tick, log, win, rot, adv, other, moved, crashed>>

\* -------------------------------------- getRotatedAccessCounts, 286-298
\* lines 288-289: the tick's bucket, the result sized.
CntTick(t) ==
  /\ ~crashed
  /\ th[t].pc = "cnt_tick"
  /\ Goto(t, [th[t] EXCEPT !.currentBucketIdx = getCurrentBucketIndex,
                           !.counts = Fill(config_.numBuckets, 0),
                           !.i = 0,
                           !.pc = "cnt_loop"])
  /\ UNCHANGED <<tracker, tick, log, win, rot, adv, other, moved, crashed>>

\* lines 291-293: the loop test, the bucket of position i, its lock.
CntLock(t) ==
  /\ ~crashed
  /\ th[t].pc = "cnt_loop"
  /\ th[t].i < config_.numBuckets
  /\ LET idx == BucketAt(th[t].currentBucketIdx, th[t].i) IN
     /\ LockAvailable(idx)
     /\ Lock(t, idx)
     /\ Goto(t, [th[t] EXCEPT !.idx = idx, !.pc = "cnt_read"])
  /\ UNCHANGED <<config_, mostRecentAccessedBucket_, filters_, counts_,
                 itemCounts_, tick, log, win, rot, adv, other, moved, crashed>>

\* line 294 and the end of the loop body: the counter is stored, the lock released.
CntRead(t) ==
  /\ ~crashed
  /\ th[t].pc = "cnt_read"
  /\ Unlock(th[t].idx)
  /\ \E g \in Garbage :
       Goto(t, [th[t] EXCEPT !.counts[th[t].i + 1] = ReadItemCount(th[t].idx, g),
                             !.i = @ + 1, !.idx = 0, !.pc = "cnt_loop"])
  /\ UNCHANGED <<config_, mostRecentAccessedBucket_, filters_, counts_,
                 itemCounts_, tick, log, win, rot, adv, other, moved, crashed>>

\* line 297: return counts;
CntDone(t) ==
  /\ ~crashed
  /\ th[t].pc = "cnt_loop"
  /\ th[t].i >= config_.numBuckets
  /\ Goto(t, [th[t] EXCEPT !.i = 0, !.pc = "ret"])
  /\ UNCHANGED <<tracker, tick, log, win, rot, adv, other, moved, crashed>>

\* ------------------------------------------------------- getByteSize
\* CMS::getByteSize() of one sketch, BloomFilter::getByteSize() per filter.
CMSByteSize == 32

BFFilterByteSize == 8

\* Mutant: the size follows what the backends hold, not what they can hold.
getByteSizeOfContents(filters, counts) ==
  Sum([j \in DOMAIN filters |-> Cardinality(filters[j]) * BFFilterByteSize])
    + Sum([j \in DOMAIN counts |->
             Cardinality({h \in Hashes : counts[j][h] > 0}) * CMSByteSize])

\* lines 120-123, for a tracker with the given filters_ and counts_.
getByteSize(filters, counts) ==
  Len(filters) * BFFilterByteSize
    + (IF counts = <<>> THEN 0 ELSE Len(counts) * CMSByteSize)

\* ------------------------------------------------- moves, lines 105-118
\* What the move constructor leaves in the object it moves from: config_ is
\* moved member by member (a size_t is copied, the ticker pointer is taken),
\* the index is only loaded, filters_, counts_ and locks_ are taken, and
\* itemCounts_ is not named in the initializer list.
MovedFrom ==
  [exists |-> TRUE,
   config_ |-> [config_ EXCEPT !.ticker = "null"],
   mostRecentAccessedBucket_ |-> mostRecentAccessedBucket_,
   filters_ |-> <<>>,
   counts_ |-> <<>>,
   locks_ |-> <<>>,
   itemCounts_ |-> itemCounts_,
   before |-> [mostRecentAccessedBucket_ |-> mostRecentAccessedBucket_,
               filters_ |-> filters_, counts_ |-> counts_,
               itemCounts_ |-> itemCounts_]]

\* What the destination's itemCounts_ holds: the member has no initializer in
\* the move constructor, so it is default constructed, an empty vector.
MovedItemCounts == <<>>

\* AccessTrackerBase(AccessTrackerBase&& other), lines 105-110. From here on the
\* tracker variables are the destination's and `other` is the source.
MoveConstruct ==
  /\ ~crashed
  /\ Quiescent
  /\ moved = "no"
  /\ other' = MovedFrom
  /\ itemCounts_' = MovedItemCounts
  /\ moved' = "fresh"
  /\ UNCHANGED <<config_, mostRecentAccessedBucket_, filters_, counts_, locks_,
                 tick, th, log, win, rot, adv, crashed>>

\* operator=(AccessTrackerBase&& other), lines 112-118: nothing on self
\* assignment, else the destination is destroyed and move constructed in place.
MoveAssign(self) ==
  /\ ~crashed
  /\ Quiescent
  /\ moved = "no"
  /\ IF self
     THEN UNCHANGED <<other, itemCounts_, moved>>
     ELSE /\ other' = MovedFrom
          /\ itemCounts_' = MovedItemCounts
          /\ moved' = "fresh"
  /\ UNCHANGED <<config_, mostRecentAccessedBucket_, filters_, counts_, locks_,
                 tick, th, log, win, rot, adv, crashed>>

\* An access outside itemCounts_ (lines 277, 283, 294) may end the process.
Crash(t) ==
  /\ ~crashed
  /\ \/ th[t].pc = "upd_reset" /\ ~InBounds(itemCounts_, th[t].bucketIdx)
     \/ th[t].pc \in {"rec_incr", "rec_store", "cnt_read"}
          /\ ~InBounds(itemCounts_, th[t].idx)
  /\ crashed' = TRUE
  /\ UNCHANGED <<tracker, tick, th, log, win, rot, adv, other, moved>>

\* ------------------------------------------------------ specifications
\* One step of thread t inside an operation.
Step(t) ==
  \/ UpdTick(t) \/ UpdLoad(t) \/ UpdCas(t) \/ UpdLock(t) \/ UpdReset(t)
  \/ RecLoad(t) \/ RecLock(t) \/ RecIncr(t) \/ RecStore(t)
  \/ GetLoad(t) \/ GetLock(t) \/ GetRead(t) \/ GetDone(t)
  \/ CntTick(t) \/ CntLock(t) \/ CntRead(t) \/ CntDone(t)
  \/ Return(t)

\* Threads call the operations concurrently while the clock moves.
Next ==
  \/ AdvanceTick
  \/ \E t \in Threads : \E o \in Ops : \E k \in ConcKeys : Call(t, o, k)
  \/ \E t \in Threads : Step(t)

\* The trackers the threads share: count min sketches, one tick per bucket.
ConcInit ==
  /\ Init
  /\ config_.useCounts
  /\ config_.numTicksPerBucket = 1

Spec == ConcInit /\ [][Next]_vars

\* Threads that only call recordAccess, on a tracker of one bucket. With one
\* bucket line 251 always returns, so lines 255-261 are never reached.
RecordInit ==
  /\ Init
  /\ config_.numBuckets = 1

RecordNext ==
  \/ AdvanceTick
  \/ \E t \in Threads : \E k \in Keys : Call(t, "recordAccess", k)
  \/ \E t \in Threads :
       \/ UpdTick(t) \/ UpdLoad(t)
       \/ RecLoad(t) \/ RecLock(t) \/ RecIncr(t) \/ RecStore(t)
       \/ Return(t)

RecordSpec == RecordInit /\ [][RecordNext]_vars

\* Threads that call getAccesses again and again while the clock runs on, each
\* thread scheduled fairly: a step it can take time and again, it takes.
QueryStep(t) ==
  \/ UpdTick(t) \/ UpdLoad(t) \/ UpdCas(t) \/ UpdLock(t) \/ UpdReset(t)
  \/ GetLoad(t) \/ GetLock(t) \/ GetRead(t) \/ GetDone(t)
  \/ Return(t)

QueryNext ==
  \/ AdvanceTickAround
  \/ \E t \in Threads : \E k \in ConcKeys : Call(t, "getAccesses", k)
  \/ \E t \in Threads : QueryStep(t)

FairQuerySpec ==
  /\ ConcInit
  /\ [][QueryNext]_vars
  /\ \A t \in Threads : SF_vars(QueryStep(t))

\* A single caller that only records: recordAccess calls on a ring of any size,
\* the clock moving between them.
SeqRecordNext ==
  \/ AdvanceTickBetweenCalls
  \/ \E k \in Keys : Call(1, "recordAccess", k)
  \/ UpdTick(1) \/ UpdLoad(1) \/ UpdCas(1) \/ UpdLock(1) \/ UpdReset(1)
  \/ RecLoad(1) \/ RecLock(1) \/ RecIncr(1) \/ RecStore(1)
  \/ Return(1)

SeqRecordSpec == Init /\ [][SeqRecordNext]_vars

\* A single caller: one operation at a time, the clock moving between calls.
SeqNext ==
  \/ AdvanceTickBetweenCalls
  \/ \E o \in Ops : \E k \in Keys : Call(1, o, k)
  \/ Step(1)

SeqSpec == Init /\ [][SeqNext]_vars

\* A single caller that may also move the tracker between two calls.
MoveNext ==
  \/ SeqNext
  \/ MoveConstruct
  \/ \E self \in BOOLEAN : MoveAssign(self)
  \/ Crash(1)

MoveSpec == Init /\ [][MoveNext]_vars

\* -------------------------------------------------------------- claims
Returned(t, o) == th[t].pc = "ret" /\ th[t].op = o

\* The positions of log that hold a recordAccess of key k.
RecordsOf(k) == {j \in 1..Len(log) : log[j].key = k}

\* All zero but a 1 at position 0.
OneThenZeros(n) == [j \in 1..n |-> IF j = 1 THEN 1 ELSE 0]

C2_MostRecentFirst ==
  \A t \in Threads :
    Returned(t, "getAccesses") =>
      LET n == config_.numBuckets
          h == Hash64(th[t].key)
      IN /\ Len(th[t].features) = n
         /\ \A i \in 0..(n - 1) :
              LET b == (mostRecentAccessedBucket_ + n - i) % n IN
              th[t].features[i + 1] =
                IF config_.useCounts THEN counts_[b + 1][h]
                ELSE IF h \in filters_[b + 1] THEN 1 ELSE 0
         /\ ( /\ n = 3
              /\ config_.numTicksPerBucket = 1
              /\ log = <<[key |-> "a", tick |-> 0], [key |-> "b", tick |-> 1]>>
              /\ tick = 1
              /\ th[t].key = "a" )
            => th[t].features = <<0, 1, 0>>

\* C2 witness: the scenario's getAccesses("a") has returned [0, 1, 0].
C2_Witness ==
  /\ Returned(1, "getAccesses")
  /\ th[1].key = "a"
  /\ config_.numBuckets = 3
  /\ config_.numTicksPerBucket = 1
  /\ log = <<[key |-> "a", tick |-> 0], [key |-> "b", tick |-> 1]>>
  /\ tick = 1
  /\ th[1].features = <<0, 1, 0>>

\* The accesses to key k recorded during bucket span sp.
RecordsInSpan(k, sp) == {j \in RecordsOf(k) : SpanOf(log[j].tick) = sp}

\* What an exact backend reports for a number of recorded accesses.
Estimate(count) ==
  IF config_.useCounts THEN count ELSE IF count > 0 THEN 1 ELSE 0

\* C3: entry i of getAccesses(K) counts only the accesses to K recorded during
\* the span that lies i spans before the current one, so an access recorded
\* numBuckets or more spans ago is reported at no position.
C3_EntryIsSpan ==
  \A t \in Threads :
    Returned(t, "getAccesses") =>
      \A i \in 0..(config_.numBuckets - 1) :
        th[t].features[i + 1] =
          Estimate(Cardinality(RecordsInSpan(th[t].key, SpanOf(tick) - i)))

\* C4: the entries of getRotatedAccessCounts() add up to the number of
\* recordAccess calls made within the last numBuckets * numTicksPerBucket ticks.
C4_RawCountConservation ==
  \A t \in Threads :
    Returned(t, "getRotatedAccessCounts") =>
      Sum(th[t].counts) =
        Cardinality({j \in 1..Len(log) :
           log[j].tick > tick - config_.numBuckets * config_.numTicksPerBucket})

\* C5: once the clock has moved on by exactly one bucket span from a state where
\* the index matched the tick's bucket, an operation that has returned leaves
\* the tick's bucket holding only accesses recorded after the clock moved.
C5_EnteredBucketIsFresh ==
  \A t \in Threads :
    (th[t].pc = "ret" /\ adv.armed) =>
      LET b == getCurrentBucketIndex
          since == {j \in 1..Len(log) : j > adv.logLen}
      IN /\ itemCounts_[b + 1] <= Cardinality(since)
         /\ \A k \in Keys :
              getBucketAccessCountLocked(b, Hash64(k)) <=
                Estimate(Cardinality({j \in since : log[j].key = k}))

\* The index getAccesses would traverse from: the shared index once the rotation
\* check of lines 245-257 has run at the present tick.
IndexAfterRotationCheck ==
  IF InBorder(getCurrentBucketIndex, mostRecentAccessedBucket_)
  THEN mostRecentAccessedBucket_
  ELSE getCurrentBucketIndex

\* C8: entry i of getRotatedAccessCounts() is the raw counter of the bucket whose
\* estimate getAccesses places at position i: bucket
\* (mostRecent + numBuckets - i) mod numBuckets, rotation check done.
C8_SameTraversal ==
  \A t \in Threads :
    Returned(t, "getRotatedAccessCounts") =>
      \A i \in 0..(config_.numBuckets - 1) :
        th[t].counts[i + 1] = itemCounts_[BucketAt(IndexAfterRotationCheck, i) + 1]

\* No thread is inside a call: each is idle or has its result in hand.
AllReturned == \A t \in Threads : th[t].pc \in {"idle", "ret"}

\* C6: with one bucket, once the concurrent recordAccess calls have returned,
\* the bucket's raw item count is the number of calls made.
C6_NoLostIncrement ==
  (config_.numBuckets = 1 /\ AllReturned) => itemCounts_[1] = Len(log)

\* C6 witness: two threads have each completed a recordAccess on the one bucket
\* and neither has returned to its caller yet.
C6_Witness ==
  /\ config_.numBuckets = 1
  /\ Returned(1, "recordAccess")
  /\ Returned(2, "recordAccess")
  /\ itemCounts_[1] = 2

\* C7: the recordAccess(K) calls completed in a bucket since the index was last
\* advanced to it are all in the bucket: its estimate for K and its raw counter
\* are at least their number.
C7_NoLostUpdate ==
  \A b \in 0..(config_.numBuckets - 1) :
    /\ \A k \in Keys : counts_[b + 1][Hash64(k)] >= win[b + 1][k]
    /\ itemCounts_[b + 1] >= win[b + 1]["a"] + win[b + 1]["b"]

\* C9: a move hands the source's ring state and every bucket's state to the
\* destination: right after it the destination has the index, the backends and
\* the raw counters the source had, and the operations go on working on it.
C9_MoveTransfersState ==
  /\ moved = "fresh" =>
       /\ mostRecentAccessedBucket_ = other.before.mostRecentAccessedBucket_
       /\ counts_ = other.before.counts_
       /\ filters_ = other.before.filters_
       /\ itemCounts_ = other.before.itemCounts_
  /\ moved # "no" => ~crashed

\* C10: a tracker that has been moved from is empty: no backends, no locks, no
\* raw counters, and a bucket count and a byte size of 0.
C10_SourceLeftEmpty ==
  other.exists =>
    /\ other.counts_ = <<>>
    /\ other.filters_ = <<>>
    /\ other.locks_ = <<>>
    /\ other.itemCounts_ = <<>>
    /\ getNumBuckets(other.config_) = 0
    /\ getByteSize(other.filters_, other.counts_) = 0

\* What one bucket's backend occupies: a sketch, or one filter of the bloom filter.
BackendByteSize == IF config_.useCounts THEN CMSByteSize ELSE BFFilterByteSize

\* The backends of a tracker that has no buckets: no sketch, no filter.
NoBackends == <<>>

\* C11: getByteSize() is the sum of the byte sizes of the buckets' backends,
\* numBuckets times one backend's size, in every state: whatever was recorded,
\* read or reset since construction. For a tracker that has no buckets it is 0.
C11_ByteSizeFixed ==
  /\ getByteSize(filters_, counts_) = config_.numBuckets * BackendByteSize
  /\ getByteSize(NoBackends, NoBackends) = 0

\* C11 witness: two accesses were recorded and the second recordAccess rotated
\* to another bucket and reset it before recording there.
C11_Witness ==
  /\ Returned(1, "recordAccess")
  /\ Len(log) = 2
  /\ mostRecentAccessedBucket_ # 0
  /\ rot.span \in rot.done
  /\ itemCounts_[mostRecentAccessedBucket_ + 1] = 1
  /\ getByteSize(filters_, counts_) > 0

\* C12: every change of the shared index moves it to the bucket of a tick span
\* that is not earlier than the span of the bucket it replaces.
C12_IndexNeverRegresses ==
  [][mostRecentAccessedBucket_' # mostRecentAccessedBucket_
       => rot'.span >= rot.span]_vars

\* C13: a thread that has won the compare-and-swap and is about to reset the
\* bucket of its tick span is the first to reset a bucket for that span: the
\* bucket of one span is not reset twice.
C13_ResetOncePerSpan ==
  \A t \in Threads :
    th[t].pc \in {"upd_lock", "upd_reset"} => th[t].span \notin rot.done

\* Thread t is inside a critical section of bucket b: the increment of lines
\* 275-277, the estimate read of line 234, the counter read of line 294 or the
\* reset of line 259.
InCritical(t, b) ==
  \/ th[t].pc \in {"rec_incr", "rec_store", "get_read", "cnt_read"} /\ th[t].idx = b
  \/ th[t].pc = "upd_reset" /\ th[t].bucketIdx = b

Buckets == 0..(config_.numBuckets - 1)

\* C14: at most one thread is inside a critical section of a given bucket, so
\* no two threads reset it at once and no reset falls between the steps of
\* another thread's increment or read of it.
C14_BucketMutualExclusion ==
  \A b \in Buckets : Cardinality({t \in Threads : InCritical(t, b)}) <= 1

\* C14 witness: thread 1 is resetting the bucket it rotated to while thread 2,
\* in recordAccess, waits for the lock of the same bucket.
C14_Witness ==
  /\ th[1].pc = "upd_reset"
  /\ th[2].pc = "rec_lock"
  /\ th[2].idx = th[1].bucketIdx
  /\ itemCounts_[th[1].bucketIdx + 1] > 0

\* The bucket locks thread t holds.
HeldBy(t) == {b \in Buckets : locks_[b + 1] = t}

\* C15: no thread holds two bucket locks at once, and a bucket's lock is held
\* only by a thread inside a critical section of that bucket, so a thread
\* working on one bucket never keeps a thread waiting for another.
C15_OneLockAtATime ==
  /\ \A t \in Threads : Cardinality(HeldBy(t)) <= 1
  /\ \A b \in Buckets : locks_[b + 1] # 0 => InCritical(locks_[b + 1], b)

\* C15 witness: getAccesses, past its first bucket, reads one bucket while a
\* recordAccess increments another.
C15_Witness ==
  /\ th[1].pc = "get_read"
  /\ th[1].i >= 1
  /\ th[2].pc = "rec_store"
  /\ th[2].idx # th[1].idx
  /\ HeldBy(1) = {th[1].idx}
  /\ HeldBy(2) = {th[2].idx}

\* The backend of bucket c among the given sketches and filters.
BackendOf(counts, filters, c) ==
  IF config_.useCounts THEN counts[c + 1] ELSE filters[c + 1]

\* A backend that holds nothing.
EmptyBackend == IF config_.useCounts THEN EmptyCMS ELSE {}

\* The step leaves every bucket's backend and raw counter as they are.
BucketsUntouched ==
  /\ counts_' = counts_
  /\ filters_' = filters_
  /\ itemCounts_' = itemCounts_

\* The step is one of thread t, taken from position pc.
StepFrom(t, pc) == th[t].pc = pc /\ th'[t] # th[t]

\* C16: a rotation changes bucket contents only in its reset, and the reset
\* clears the backend and the raw counter of the bucket the thread advanced the
\* index to and leaves the backend and raw counter of every other bucket as
\* they were.
C16_ResetOnlyEnteredBucket ==
  [][\A t \in Threads :
       /\ (StepFrom(t, "upd_cas") \/ StepFrom(t, "upd_lock")) => BucketsUntouched
       /\ StepFrom(t, "upd_reset") =>
            \A c \in Buckets :
              IF c = th[t].bucketIdx
              THEN /\ BackendOf(counts_', filters_', c) = EmptyBackend
                   /\ itemCounts_'[c + 1] = 0
              ELSE /\ BackendOf(counts_', filters_', c) = BackendOf(counts_, filters_, c)
                   /\ itemCounts_'[c + 1] = itemCounts_[c + 1]]_vars

\* C16 witness: with three buckets, an access was recorded in bucket 0, the
\* clock moved on, and thread 1 has just rotated to bucket 1 and reset it:
\* bucket 0 still holds its access.
C16_Witness ==
  /\ config_.numBuckets = 3
  /\ th[1].pc = "rec_load"
  /\ th[2].pc = "idle"
  /\ mostRecentAccessedBucket_ = 1
  /\ rot.span \in rot.done
  /\ itemCounts_ = <<1, 0, 0>>

\* C17: a rotation check whose bucket is the one the index names, or the one
\* just behind it, returns at once and changes neither the index nor any
\* bucket; and recordAccess then records in the bucket the index names when it
\* is loaded after the check.
C17_LaggingThreadTolerated ==
  [][\A t \in Threads :
       /\ ( /\ StepFrom(t, "upd_load")
            /\ \/ th[t].bucketIdx = mostRecentAccessedBucket_
               \/ (th[t].bucketIdx + 1) % config_.numBuckets = mostRecentAccessedBucket_ )
          => /\ th'[t].pc = AfterUpdate(th[t].fn)
             /\ mostRecentAccessedBucket_' = mostRecentAccessedBucket_
             /\ BucketsUntouched
       /\ StepFrom(t, "rec_load") =>
            /\ th'[t].idx = mostRecentAccessedBucket_
            /\ mostRecentAccessedBucket_' = mostRecentAccessedBucket_]_vars

\* C17 witness: with three buckets the index names bucket 1, the tick's bucket
\* is bucket 0, one behind it, and thread 1's recordAccess, its rotation check
\* done, is about to record in bucket 1.
C17_Witness ==
  /\ config_.numBuckets = 3
  /\ th[1].pc = "rec_lock"
  /\ th[2].pc = "idle"
  /\ mostRecentAccessedBucket_ = 1
  /\ getCurrentBucketIndex = 0
  /\ th[1].idx = 1

\* What one increment for the hash of key k makes of a backend.
BackendPlus(backend, k) ==
  IF config_.useCounts
  THEN [backend EXCEPT ![Hash64(k)] = @ + 1]
  ELSE backend \cup {Hash64(k)}

\* C18: past its rotation check, recordAccess(key) never changes the index; it
\* takes the bucket the index names, gives that bucket's backend one increment
\* for the key's hash and adds exactly 1 to its raw counter, and leaves the
\* backend and raw counter of every other bucket as they were.
C18_RecordTouchesOneBucket ==
  [][\A t \in Threads :
       /\ StepFrom(t, "rec_load") =>
            /\ th'[t].idx = mostRecentAccessedBucket_
            /\ BucketsUntouched
       /\ StepFrom(t, "rec_lock") => BucketsUntouched
       /\ StepFrom(t, "rec_incr") =>
            /\ itemCounts_' = itemCounts_
            /\ \A c \in Buckets :
                 BackendOf(counts_', filters_', c) =
                   IF c = th[t].idx
                   THEN BackendPlus(BackendOf(counts_, filters_, c), th[t].key)
                   ELSE BackendOf(counts_, filters_, c)
       /\ StepFrom(t, "rec_store") =>
            /\ counts_' = counts_
            /\ filters_' = filters_
            /\ \A c \in Buckets :
                 itemCounts_'[c + 1] =
                   itemCounts_[c + 1] + (IF c = th[t].idx THEN 1 ELSE 0)
       /\ (th[t].pc \in {"rec_load", "rec_lock", "rec_incr", "rec_store"}
             /\ th'[t] # th[t])
          => mostRecentAccessedBucket_' = mostRecentAccessedBucket_]_vars

\* C18 witness: with three buckets, thread 1's recordAccess("b") has recorded
\* in bucket 1 while bucket 0 keeps the access to "a" recorded before.
C18_Witness ==
  /\ config_.numBuckets = 3
  /\ Returned(1, "recordAccess")
  /\ th[1].key = "b"
  /\ th[1].idx = 1
  /\ mostRecentAccessedBucket_ = 1
  /\ itemCounts_ = <<1, 1, 0>>
  /\ log[1].key = "a"

\* C19: every operation a thread has invoked eventually returns.
C19_EveryCallReturns ==
  \A t \in Threads : (th[t].pc \notin {"idle", "ret"}) ~> (th[t].pc = "ret")

\* C20: while a thread that has advanced the index to a bucket has not yet reset
\* it, what another thread reads of that bucket, its estimate in getAccesses or
\* its raw counter in getRotatedAccessCounts, holds nothing recorded before the
\* index was advanced: no more than the accesses recorded since.
C20_NoReadBeforeReset ==
  \A t \in Threads : \A u \in Threads \ {t} :
    (th[u].pc = "upd_lock" /\ th[t].idx = th[u].bucketIdx) =>
      /\ th[t].pc = "get_read" =>
           getBucketAccessCountLocked(th[t].idx, th[t].hashVal)
             <= win[th[t].idx + 1][th[t].key]
      /\ th[t].pc = "cnt_read" =>
           itemCounts_[th[t].idx + 1]
             <= win[th[t].idx + 1]["a"] + win[th[t].idx + 1]["b"]

====
